---- MODULE Spec2Model ----
(***************************************************************************)
(* Model of pybambu.BambuLab (src/pybambu/bambulab.py): one aggregator     *)
(* object, the paho Client objects it creates, the background loop thread  *)
(* of each Client, and one sequential caller driving the public methods.   *)
(***************************************************************************)
EXTENDS Integers, Sequences, FiniteSets, TLC

\* Bounds of the exploration.
MaxClients == 2     \* Client objects created (calls of connect / get_device)
MaxMsgs == 2        \* payloads kept in the merge history (MergeSpec)

\* asyncio.sleep(5) in get_device, counted in whole time units.
WaitTicks == 5

(***************************************************************************)
(* Payloads.  A message carries raw bytes; json.loads either yields a      *)
(* mapping field -> value or raises.                                       *)
(***************************************************************************)
RawTemp20 == "{\"temp\": 20}"
RawFanOn == "{\"fan\": \"on\"}"
RawTemp25 == "{\"temp\": 25}"
RawBoth == "{\"temp\": 20, \"fan\": \"off\"}"
RawBad == "{\"temp\": "

RawPayloads == {RawTemp20, RawFanOn, RawTemp25, RawBoth, RawBad}

EmptyAttrs == [f \in {} |-> ""]

Decodable(raw) == raw \in {RawTemp20, RawFanOn, RawTemp25, RawBoth}

json_loads(raw) ==
    CASE raw = RawTemp20 -> [temp |-> "20"]
      [] raw = RawFanOn  -> [fan |-> "on"]
      [] raw = RawTemp25 -> [temp |-> "25"]
      [] raw = RawBoth   -> [temp |-> "20", fan |-> "off"]
      [] OTHER           -> EmptyAttrs

(***************************************************************************)
(* Device (pybambu.models, not part of the sources at hand): built from a  *)
(* full payload, later payloads merged field by field.                     *)
(***************************************************************************)
None == [some |-> FALSE, attrs |-> EmptyAttrs]

Device(data) == [some |-> TRUE, attrs |-> data]

update_from_dict(dev, data) ==
    [dev EXCEPT !.attrs =
        [f \in (DOMAIN dev.attrs) \cup (DOMAIN data) |->
            IF f \in DOMAIN data THEN data[f] ELSE dev.attrs[f]]]

(***************************************************************************)
(* paho Client objects, as far as BambuLab drives them.                    *)
(*   conn        "none"      no socket (never connected, or closed)         *)
(*               "pending"   socket open, CONNECT sent, no CONNACK yet      *)
(*               "accepted"  CONNACK with result code 0                     *)
(*               "refused"   CONNACK with a non-zero result code            *)
(*   thread      "none" | "running" | "dead"   the loop_start() thread     *)
(*   on_message  "none" or the callback captured by the handler closure    *)
(*   subscribed  the broker holds a subscription to device/# for it        *)
(***************************************************************************)
UserCallbacks == {"cbA", "cbB"}

RcAccepted == 0
RcRefused == 5

NewClient ==
    [conn |-> "none", thread |-> "none", on_message |-> "none",
     subscribed |-> FALSE]

HasSocket(cl) == cl.conn \in {"pending", "accepted"}

sock_connect(cl) == [cl EXCEPT !.conn = "pending"]

loop_start(cl) == [cl EXCEPT !.thread = "running"]

loop_stop(cl) == [cl EXCEPT !.thread = "none"]

sock_disconnect(cl) == [cl EXCEPT !.conn = "none", !.subscribed = FALSE]

sock_subscribe(cl) == [cl EXCEPT !.subscribed = (@ \/ HasSocket(cl))]

connack(cl, rc) ==
    IF rc = RcAccepted THEN [cl EXCEPT !.conn = "accepted"]
    ELSE [cl EXCEPT !.conn = "refused", !.subscribed = FALSE]

Receiving(cl) ==
    /\ cl.thread = "running"
    /\ cl.conn = "accepted"
    /\ cl.subscribed
    /\ cl.on_message # "none"

VARIABLES
    client,      \* self._client: 0 (None) or an index into clients
    device,      \* self._device: None or the one Device object
    clients,     \* every Client object created so far, in creation order
    pc,          \* the caller: "idle" between calls, "gd_sleep" inside get_device
    task,        \* the subscribe task created by get_device: "none" | "pending"
    ticks,       \* time units of the sleep of get_device that have elapsed
    local,       \* get_device's local `device`: "None" or "ref" (the Device object)
    gdLog,       \* the steps the running get_device has performed
    win,         \* what the handlers did while the running get_device slept
    outcome,     \* how the last completed call of a public method ended
    hist,        \* decoded payloads merged so far (kept by MergeSpec only)
    received,    \* some payload was decoded and merged
    cbArg,       \* the state passed to the last callback invocation
    cbRun,       \* the callbacks invoked by the last traced handler run, in order
    reg,         \* per Client, the callback last passed to subscribe on it
    busy,        \* the handler invocations begun and not yet finished
    inScope,     \* inside `async with`
    scopeStarted \* Client objects whose loop was started inside the scope

vars == <<client, device, clients, pc, task, ticks, local, gdLog, win,
          outcome, hist, received, cbArg, cbRun, reg, busy, inScope, scopeStarted>>

Self == [client |-> client, device |-> device, clients |-> clients]

RunningLoops(cls) == {c \in 1..Len(cls) : cls[c].thread = "running"}

(***************************************************************************)
(* The methods of BambuLab, as functions of the object's state s.  Each    *)
(* yields the state it leaves behind, the exception it raises ("none"      *)
(* when it returns) and the transport calls it issued.                     *)
(***************************************************************************)
on_connect(s, rc) == s

\* connect that starts every session with an absent Device State.
connect_resets(s, reach) ==
    LET c == Len(s.clients) + 1
        made == [s EXCEPT !.client = c, !.clients = Append(@, NewClient),
                          !.device = None]
    IN IF reach = "unreachable"
         THEN [self |-> made, exc |-> "OSError",
               calls |-> <<"Client", "connect">>]
         ELSE [self |-> [made EXCEPT !.clients[c] = loop_start(sock_connect(@))],
               exc |-> "none",
               calls |-> <<"Client", "connect", "loop_start">>]

\* connect whose new Client inherits the handler of the Client it replaces.
connect_carries(s, reach) ==
    LET c == Len(s.clients) + 1
        kept == IF s.client = 0 THEN "none" ELSE s.clients[s.client].on_message
        made == [s EXCEPT !.client = c,
                          !.clients = Append(@, [NewClient EXCEPT !.on_message = kept])]
    IN IF reach = "unreachable"
         THEN [self |-> made, exc |-> "OSError",
               calls |-> <<"Client", "connect">>]
         ELSE [self |-> [made EXCEPT !.clients[c] = loop_start(sock_connect(@))],
               exc |-> "none",
               calls |-> <<"Client", "connect", "loop_start">>]

connect(s, reach) ==
    LET c == Len(s.clients) + 1
        made == [s EXCEPT !.client = c, !.clients = Append(@, NewClient)]
    IN IF reach = "unreachable"
         THEN [self |-> made, exc |-> "OSError",
               calls |-> <<"Client", "connect">>]
         ELSE [self |-> [made EXCEPT !.clients[c] = loop_start(sock_connect(@))],
               exc |-> "none",
               calls |-> <<"Client", "connect", "loop_start">>]

\* subscribe that keeps a handler already registered on the Client.
subscribe_keeps(s, callback) ==
    IF s.client = 0
      THEN [self |-> s, exc |-> "AttributeError", calls |-> <<>>]
      ELSE LET old == s.clients[s.client].on_message
               h == IF old = "none" THEN callback ELSE old
           IN [self |-> [s EXCEPT !.clients[s.client] =
                            sock_subscribe([@ EXCEPT !.on_message = h])],
               exc |-> "none",
               calls |-> <<"subscribe">>]

subscribe(s, callback) ==
    IF s.client = 0
      THEN [self |-> s, exc |-> "AttributeError", calls |-> <<>>]
      ELSE [self |-> [s EXCEPT !.clients[s.client] =
                          sock_subscribe([@ EXCEPT !.on_message = callback])],
            exc |-> "none",
            calls |-> <<"subscribe">>]

\* disconnect without the `if not self._client` guard.
disconnect_unguarded(s) ==
    IF s.client = 0
      THEN [self |-> s, exc |-> "AttributeError", calls |-> <<>>]
      ELSE [self |-> [s EXCEPT !.clients[s.client] = sock_disconnect(loop_stop(@))],
            exc |-> "none",
            calls |-> <<"loop_stop", "disconnect">>]

\* disconnect that also forgets the Device State.
disconnect_clears(s) ==
    IF s.client = 0
      THEN [self |-> s, exc |-> "none", calls |-> <<>>]
      ELSE [self |-> [s EXCEPT !.clients[s.client] = sock_disconnect(loop_stop(@)),
                               !.device = None],
            exc |-> "none",
            calls |-> <<"loop_stop", "disconnect">>]

disconnect(s) ==
    IF s.client = 0
      THEN [self |-> s, exc |-> "none", calls |-> <<>>]
      ELSE [self |-> [s EXCEPT !.clients[s.client] = sock_disconnect(loop_stop(@))],
            exc |-> "none",
            calls |-> <<"loop_stop", "disconnect">>]

\* on_message that builds a new Device from every payload instead of merging.
on_message_replace(s, callback, raw) ==
    IF ~Decodable(raw)
      THEN [self |-> s, exc |-> "JSONDecodeError", cb |-> "none", arg |-> None]
      ELSE LET made == Device(json_loads(raw))
           IN [self |-> [s EXCEPT !.device = made],
               exc |-> "none", cb |-> callback, arg |-> made]

\* on_message handing the callback the state as it was before the merge.
on_message_stale(s, callback, raw) ==
    IF ~Decodable(raw)
      THEN [self |-> s, exc |-> "JSONDecodeError", cb |-> "none", arg |-> None]
      ELSE LET data == json_loads(raw)
               made == IF s.device = None THEN Device(data) ELSE s.device
               merged == update_from_dict(made, data)
           IN [self |-> [s EXCEPT !.device = merged],
               exc |-> "none", cb |-> callback, arg |-> s.device]

\* The closure on_message built by subscribe(callback), run for one message.
on_message(s, callback, raw) ==
    IF ~Decodable(raw)
      THEN [self |-> s, exc |-> "JSONDecodeError", cb |-> "none", arg |-> None]
      ELSE LET data == json_loads(raw)
               made == IF s.device = None THEN Device(data) ELSE s.device
               merged == update_from_dict(made, data)
           IN [self |-> [s EXCEPT !.device = merged],
               exc |-> "none", cb |-> callback, arg |-> merged]

\* Lines 59-63 of the closure, run by a loop thread that found
\* `self._device is None` to be sawNone at line 58.
on_message_tail(s, callback, raw, sawNone) ==
    IF ~Decodable(raw)
      THEN [self |-> s, exc |-> "JSONDecodeError", cb |-> "none", arg |-> None]
      ELSE LET data == json_loads(raw)
               made == IF sawNone THEN Device(data) ELSE s.device
               merged == update_from_dict(made, data)
           IN [self |-> [s EXCEPT !.device = merged],
               exc |-> "none", cb |-> callback, arg |-> merged]

\* new_update without `nonlocal`: the assignment binds a variable of its own.
new_update_unbound(loc, cb) == loc

\* The closure new_update of get_device: the local takes the object passed in.
new_update(loc, cb) == IF cb.some THEN "ref" ELSE "None"

\* What the local of get_device denotes when it is returned.
Deref(loc, dev) == IF loc = "ref" THEN dev ELSE None

\* asyncio.sleep(5) is over.
SleepOver(t, loc) == t = WaitTicks

NoOutcome == [op |-> "none", exc |-> "none", ret |-> None, calls |-> <<>>]

\* Nothing handled yet in the wait window of get_device.
\*   any     a handler ran            own   new_update was invoked
\*   last    the last payload merged  fields  the fields of the payloads merged
NoWindow == [any |-> FALSE, own |-> FALSE, last |-> "", fields |-> {}]

Seen(w, r, raw) ==
    [any |-> TRUE,
     own |-> (w.own \/ r.cb = "new_update"),
     last |-> IF r.exc = "none" THEN raw ELSE w.last,
     fields |-> IF r.exc = "none" THEN w.fields \cup DOMAIN json_loads(raw)
                ELSE w.fields]

Init ==
    /\ client = 0
    /\ device = None
    /\ clients = <<>>
    /\ pc = "idle"
    /\ task = "none"
    /\ ticks = 0
    /\ local = "None"
    /\ gdLog = <<>>
    /\ win = NoWindow
    /\ outcome = NoOutcome
    /\ hist = <<>>
    /\ received = FALSE
    /\ cbArg = None
    /\ cbRun = <<>>
    /\ reg = <<>>
    /\ busy = {}
    /\ inScope = FALSE
    /\ scopeStarted = {}

gdVars == <<pc, task, ticks, local, gdLog, win>>
msgVars == <<hist, received, cbArg, cbRun>>
scopeVars == <<inScope, scopeStarted>>

Started(r) ==
    IF inScope /\ r.exc = "none" THEN scopeStarted \cup {r.self.client}
    ELSE scopeStarted

\* await b.connect()
Connect(reach) ==
    /\ pc = "idle"
    /\ Len(clients) < MaxClients
    /\ LET r == connect(Self, reach)
       IN /\ client' = r.self.client
          /\ device' = r.self.device
          /\ clients' = r.self.clients
          /\ outcome' = [NoOutcome EXCEPT !.op = "connect", !.exc = r.exc,
                                          !.calls = r.calls]
          /\ scopeStarted' = Started(r)
    /\ reg' = Append(reg, "none")
    /\ UNCHANGED <<gdVars, msgVars, inScope, busy>>

\* await b.subscribe(callback)
Subscribe(callback) ==
    /\ pc = "idle"
    /\ LET r == subscribe(Self, callback)
       IN /\ client' = r.self.client
          /\ device' = r.self.device
          /\ clients' = r.self.clients
          /\ outcome' = [NoOutcome EXCEPT !.op = "subscribe", !.exc = r.exc,
                                          !.calls = r.calls]
    /\ reg' = IF client = 0 THEN reg ELSE [reg EXCEPT ![client] = callback]
    /\ UNCHANGED <<gdVars, msgVars, scopeVars, busy>>

\* await b.disconnect()
Disconnect ==
    /\ pc = "idle"
    /\ LET r == disconnect(Self)
       IN /\ client' = r.self.client
          /\ device' = r.self.device
          /\ clients' = r.self.clients
          /\ outcome' = [NoOutcome EXCEPT !.op = "disconnect", !.exc = r.exc,
                                          !.calls = r.calls]
    /\ UNCHANGED <<gdVars, msgVars, scopeVars, reg, busy>>

\* The loop thread of Client c receives the broker's CONNACK.
OnConnect(c, rc) ==
    /\ c \in 1..Len(clients)
    /\ clients[c].thread = "running"
    /\ clients[c].conn = "pending"
    /\ LET s == on_connect(Self, rc)
       IN /\ client' = s.client
          /\ device' = s.device
          /\ clients' = [s.clients EXCEPT ![c] = connack(@, rc)]
    /\ UNCHANGED <<gdVars, msgVars, scopeVars, outcome, reg, busy>>

\* The loop thread of Client c takes one message off the wire and runs the
\* handler; an exception leaving the handler ends the thread.
Handle(c, raw) ==
    /\ c \in 1..Len(clients)
    /\ Receiving(clients[c])
    /\ LET r == on_message(Self, clients[c].on_message, raw)
       IN /\ client' = r.self.client
          /\ device' = r.self.device
          /\ clients' = IF r.exc = "none" THEN r.self.clients
                        ELSE [r.self.clients EXCEPT ![c].thread = "dead"]
          /\ received' = (received \/ r.exc = "none")
          /\ cbArg' = IF r.cb = "none" THEN cbArg ELSE r.arg
          /\ local' = IF r.cb = "new_update" THEN new_update(local, r.arg) ELSE local
          /\ win' = IF pc = "gd_sleep" THEN Seen(win, r, raw) ELSE win
    /\ UNCHANGED <<pc, task, ticks, gdLog, scopeVars, outcome, reg, busy>>

OnMessage(c, raw) ==
    /\ Handle(c, raw)
    /\ UNCHANGED <<hist, cbRun>>

\* The same step, with the decoded payload kept in the merge history and the
\* callbacks the handler invoked written down.
OnMessageTraced(c, raw) ==
    /\ Len(hist) < MaxMsgs
    /\ Handle(c, raw)
    /\ hist' = IF Decodable(raw) THEN Append(hist, json_loads(raw)) ELSE hist
    /\ cbRun' = LET r == on_message(Self, clients[c].on_message, raw)
                IN IF r.cb = "none" THEN <<>> ELSE <<r.cb>>

\* get_device up to its first suspension: connect, create the subscribe task,
\* enter asyncio.sleep.  A connect that raises ends the call.
GetDeviceStart(reach) ==
    /\ pc = "idle"
    /\ Len(clients) < MaxClients
    /\ LET r == connect(Self, reach)
       IN /\ client' = r.self.client
          /\ device' = r.self.device
          /\ clients' = r.self.clients
          /\ scopeStarted' = Started(r)
          /\ IF r.exc = "none"
               THEN /\ pc' = "gd_sleep"
                    /\ task' = "pending"
                    /\ gdLog' = <<"connect">>
                    /\ UNCHANGED outcome
               ELSE /\ outcome' = [NoOutcome EXCEPT !.op = "get_device",
                                       !.exc = r.exc, !.calls = r.calls]
                    /\ UNCHANGED <<pc, task, gdLog>>
    /\ ticks' = 0
    /\ local' = "None"
    /\ win' = NoWindow
    /\ reg' = Append(reg, "none")
    /\ UNCHANGED <<msgVars, inScope, busy>>

\* The event loop runs the task made by create_task(self.subscribe(new_update)).
SubscribeTask ==
    /\ pc = "gd_sleep"
    /\ task = "pending"
    /\ LET r == subscribe(Self, "new_update")
       IN /\ client' = r.self.client
          /\ device' = r.self.device
          /\ clients' = r.self.clients
    /\ task' = "none"
    /\ gdLog' = Append(gdLog, "subscribe")
    /\ reg' = [reg EXCEPT ![client] = "new_update"]
    /\ UNCHANGED <<pc, ticks, local, win, msgVars, scopeVars, outcome, busy>>

\* One time unit of the sleep passes.
Tick ==
    /\ pc = "gd_sleep"
    /\ task = "none"
    /\ ticks < WaitTicks
    /\ ticks' = ticks + 1
    /\ UNCHANGED <<client, device, clients, pc, task, local, gdLog, win,
                   msgVars, scopeVars, outcome, reg, busy>>

\* The sleep is over: disconnect and return the local.
GetDeviceReturn ==
    /\ pc = "gd_sleep"
    /\ task = "none"
    /\ SleepOver(ticks, local)
    /\ LET r == disconnect(Self)
       IN /\ client' = r.self.client
          /\ device' = r.self.device
          /\ clients' = r.self.clients
          /\ outcome' = [op |-> "get_device", exc |-> r.exc,
                         ret |-> Deref(local, r.self.device),
                         calls |-> r.calls]
    /\ pc' = "idle"
    /\ ticks' = 0
    /\ local' = "None"
    /\ gdLog' = <<>>
    /\ win' = NoWindow
    /\ UNCHANGED <<task, msgVars, scopeVars, reg, busy>>

\* async with b: ...   __aenter__ returns self.
AEnter ==
    /\ pc = "idle"
    /\ ~inScope
    /\ inScope' = TRUE
    /\ scopeStarted' = {}
    /\ outcome' = [NoOutcome EXCEPT !.op = "__aenter__"]
    /\ UNCHANGED <<client, device, clients, gdVars, msgVars, reg, busy>>

ExitKinds == {"normal", "exception"}

\* The scope is left, normally or by an exception passing through:
\* __aexit__ awaits disconnect().
AExit(how) ==
    /\ pc = "idle"
    /\ inScope
    /\ LET r == disconnect(Self)
       IN /\ client' = r.self.client
          /\ device' = r.self.device
          /\ clients' = r.self.clients
          /\ outcome' = [NoOutcome EXCEPT !.op = "__aexit__", !.exc = r.exc,
                                          !.calls = r.calls]
    /\ inScope' = FALSE
    /\ UNCHANGED <<gdVars, msgVars, scopeStarted, reg, busy>>

Reach == {"reachable", "unreachable"}

Next ==
    \/ \E reach \in Reach : Connect(reach)
    \/ \E cb \in UserCallbacks : Subscribe(cb)
    \/ Disconnect
    \/ \E c \in 1..MaxClients, rc \in {RcAccepted, RcRefused} : OnConnect(c, rc)
    \/ \E c \in 1..MaxClients, raw \in RawPayloads : OnMessage(c, raw)
    \/ \E reach \in Reach : GetDeviceStart(reach)
    \/ SubscribeTask
    \/ Tick
    \/ GetDeviceReturn

Spec == Init /\ [][Next]_vars

\* Long-lived subscription use, with the merge history kept.
MergeNext ==
    \/ \E reach \in Reach : Connect(reach)
    \/ \E cb \in UserCallbacks : Subscribe(cb)
    \/ Disconnect
    \/ \E c \in 1..MaxClients, rc \in {RcAccepted, RcRefused} : OnConnect(c, rc)
    \/ \E c \in 1..MaxClients, raw \in RawPayloads : OnMessageTraced(c, raw)

MergeSpec == Init /\ [][MergeNext]_vars

\* The handler as the loop threads run it: the test of line 58 and the rest of
\* the body are separate steps, so that two loop threads can be inside the
\* handler together.
InHandler(c) == {b \in busy : b.c = c}

HandlerBegin(c, raw) ==
    /\ c \in 1..Len(clients)
    /\ Receiving(clients[c])
    /\ InHandler(c) = {}
    /\ busy' = busy \cup {[c |-> c, raw |-> raw, cb |-> clients[c].on_message,
                            sawNone |-> (device = None)]}
    /\ UNCHANGED <<client, device, clients, gdVars, msgVars, scopeVars,
                   outcome, reg>>

HandlerEnd(c) ==
    /\ \E b \in InHandler(c) :
          LET r == on_message_tail(Self, b.cb, b.raw, b.sawNone)
          IN /\ client' = r.self.client
             /\ device' = r.self.device
             /\ clients' = IF r.exc = "none" THEN r.self.clients
                           ELSE [r.self.clients EXCEPT ![c].thread = "dead"]
             /\ received' = (received \/ r.exc = "none")
             /\ cbArg' = IF r.cb = "none" THEN cbArg ELSE r.arg
             /\ cbRun' = IF r.cb = "none" THEN <<>> ELSE <<r.cb>>
             /\ busy' = busy \ {b}
    /\ UNCHANGED <<gdVars, hist, scopeVars, outcome, reg>>

\* disconnect() with a handler running on the current Client: loop_stop()
\* joins the loop thread, so the call goes on when the handler has returned.
RaceDisconnect ==
    /\ client # 0 => InHandler(client) = {}
    /\ Disconnect

RaceNext ==
    \/ \E reach \in Reach : Connect(reach)
    \/ \E cb \in UserCallbacks : Subscribe(cb)
    \/ RaceDisconnect
    \/ \E c \in 1..MaxClients, rc \in {RcAccepted, RcRefused} : OnConnect(c, rc)
    \/ \E c \in 1..MaxClients, raw \in RawPayloads : HandlerBegin(c, raw)
    \/ \E c \in 1..MaxClients : HandlerEnd(c)

RaceSpec == Init /\ [][RaceNext]_vars

\* Use through `async with`.
ScopeNext ==
    \/ Next
    \/ AEnter
    \/ \E how \in ExitKinds : AExit(how)

ScopeSpec == Init /\ [][ScopeNext]_vars

(***************************************************************************)
(* Properties.                                                             *)
(***************************************************************************)
Max(S) == CHOOSE x \in S : \A y \in S : y <= x

Mentions(h, f) == {i \in 1..Len(h) : f \in DOMAIN h[i]}

\* Last write wins, computed from the sequence of payloads alone.
LastWrite(h) ==
    [f \in UNION {DOMAIN h[i] : i \in 1..Len(h)} |-> h[Max(Mentions(h, f))][f]]

\* C1: after the valid payloads P1..Pn have been handled, starting from an
\* absent Device State, the Device State holds exactly the fields mentioned by
\* some Pi, each with the value of the last Pi that mentions it.
Thm_C1_MergeLastWriteWins ==
    /\ hist = <<>> => device = None
    /\ hist # <<>> => device = [some |-> TRUE, attrs |-> LastWrite(hist)]

\* Two payloads handled: temp overwritten by the second, fan kept from the first.
Wit_C1_OverwriteAndKeep ==
    /\ hist = <<[temp |-> "20", fan |-> "off"], [temp |-> "25"]>>
    /\ device.some
    /\ device.attrs = [temp |-> "25", fan |-> "off"]

\* C2: a malformed payload handed to the handler leaves the Device State
\* unchanged, lets no error leave the handler, and leaves the loop able to
\* hand later payloads to the handler.
Cex_C2_MalformedContained ==
    [][\A c \in 1..MaxClients :
          OnMessage(c, RawBad) =>
             /\ device' = device
             /\ on_message(Self, clients[c].on_message, RawBad).exc = "none"
             /\ Receiving(clients'[c])]_vars

\* C3: connect() against an unreachable endpoint raises and leaves the client
\* handle, the Device State and the running delivery loops as they were.
Cex_C3_FailedConnectRestores ==
    [][Connect("unreachable") =>
          /\ outcome'.exc # "none"
          /\ client' = client
          /\ device' = device
          /\ RunningLoops(clients') = RunningLoops(clients)]_vars

\* C4: a connect() whose connection attempt failed (endpoint unreachable, or
\* handshake answered with a non-zero result code) ended by raising the typed
\* connection error; it did not return normally.
Cex_C4_TypedConnectionError ==
    (outcome.op = "connect"
        /\ (outcome.exc # "none" \/ clients[client].conn = "refused"))
    => outcome.exc = "BambuLabConnectionError"

\* C5: disconnect() on an object on which connect() was never called returns
\* without raising, issues no transport call, changes nothing and leaves no
\* loop running.
Thm_C5_DisconnectNeverConnected ==
    [][(Disconnect /\ clients = <<>>) =>
          /\ outcome'.exc = "none"
          /\ outcome'.calls = <<>>
          /\ client' = client
          /\ device' = device
          /\ clients' = clients
          /\ RunningLoops(clients') = {}]_vars

Wit_C5_DisconnectedNeverConnected ==
    /\ outcome.op = "disconnect"
    /\ outcome.exc = "none"
    /\ clients = <<>>
    /\ client = 0

\* C6: get_device() returns None without raising when no message was handled
\* during the wait, and a failed connection never ends in a None return: it
\* ends in a raised error.
Cex_C6_NoDataIsNotConnectionFailure ==
    [][/\ GetDeviceReturn =>
            /\ (clients[client].conn # "refused" /\ ~win.any) =>
                   (outcome'.exc = "none" /\ outcome'.ret = None)
            /\ clients[client].conn = "refused" => outcome'.exc # "none"
       /\ GetDeviceStart("unreachable") => outcome'.exc # "none"]_vars

\* C7: when get_device() returns after its own subscription has handled at
\* least one valid message during the wait, it returns the Device State: the
\* state passed to the last callback invocation, holding every field of the
\* payloads merged during the wait and the last payload's values.
Thm_C7_SnapshotReturnsMergedState ==
    [][(GetDeviceReturn /\ win.own) =>
          /\ outcome'.exc = "none"
          /\ outcome'.ret.some
          /\ outcome'.ret = device'
          /\ outcome'.ret = cbArg
          /\ win.fields \subseteq DOMAIN outcome'.ret.attrs
          /\ \A f \in DOMAIN json_loads(win.last) :
                 outcome'.ret.attrs[f] = json_loads(win.last)[f]]_vars

\* get_device() has returned a state with both fields, received during its wait.
Wit_C7_SnapshotWithState ==
    /\ outcome.op = "get_device"
    /\ outcome.exc = "none"
    /\ outcome.ret.some
    /\ DOMAIN outcome.ret.attrs = {"temp", "fan"}
    /\ Len(clients) = 1

\* C8: a get_device() that returns has connected, then subscribed, then waited
\* the whole sleep, then disconnected; when it returns the session is closed
\* and no delivery loop is running.
Cex_C8_SnapshotOrderAndRelease ==
    [][GetDeviceReturn =>
          /\ gdLog = <<"connect", "subscribe">>
          /\ ticks = WaitTicks
          /\ outcome'.calls = <<"loop_stop", "disconnect">>
          /\ clients'[client'].conn = "none"
          /\ RunningLoops(clients') = {}]_vars

\* C9: leaving the `async with` scope, normally or by an exception, runs
\* disconnect(), and afterwards no loop started inside the scope is running.
Cex_C9_ScopeReleasesLoops ==
    [][\A how \in ExitKinds :
          AExit(how) =>
             /\ outcome'.op = "__aexit__"
             /\ (client # 0 => outcome'.calls = <<"loop_stop", "disconnect">>)
             /\ \A c \in scopeStarted : clients'[c].thread # "running"]_vars

\* C10: the Device State is None as long as no payload has been decoded and
\* merged, and once it is a Device it never is None again.
Thm_C10_AbsentUntilFirstPayload ==
    /\ [](~received => device = None)
    /\ [][device # None => device' # None]_vars

\* A Device State received in one session is still there after disconnect()
\* and a second connect().
Wit_C10_StateSurvivesReconnect ==
    /\ device.some
    /\ received
    /\ outcome.op = "connect"
    /\ Len(clients) = 2
    /\ clients[1].conn = "none"

\* The lifecycle states of the aggregator, read off the session self._client.
Idle == client = 0 \/ (~HasSocket(clients[client]) /\ clients[client].thread # "running")

Connected == client # 0 /\ HasSocket(clients[client]) /\ clients[client].thread = "running"

\* C11 as stated: disconnect() leads to Idle; every connect() taken in Idle
\* leads to Connected with no Device State; the Device State appears only in
\* a message step.
Cex_C11_ConnectEntersNoState ==
    [][/\ Disconnect => Idle'
       /\ (Connect("reachable") /\ Idle) => (Connected' /\ ~device'.some)
       /\ (~device.some /\ device'.some) =>
             \E c \in 1..MaxClients, raw \in RawPayloads : OnMessage(c, raw)]_vars

\* C11 amended: disconnect() leads to Idle; a connect() taken in Idle leads to
\* Connected and leaves the Device State as it was: none when no payload was
\* ever received, the state of the earlier sessions otherwise; the Device
\* State appears only in a message step.
Thm_C11_ConnectKeepsState ==
    [][/\ Disconnect => Idle'
       /\ (Connect("reachable") /\ Idle) =>
             (Connected' /\ device' = device /\ (device'.some <=> received))
       /\ (~device.some /\ device'.some) =>
             \E c \in 1..MaxClients, raw \in RawPayloads : OnMessage(c, raw)]_vars

\* A second session has just been opened from Idle and starts with the state
\* the first session received.
Wit_C11_ReconnectedWithState ==
    /\ outcome.op = "connect"
    /\ outcome.exc = "none"
    /\ Len(clients) = 2
    /\ clients[1].thread = "none"
    /\ ~HasSocket(clients[1])
    /\ Connected
    /\ device.some
    /\ DOMAIN device.attrs = {"temp"}

\* C13: at most one delivery loop started by the aggregator is running at any
\* time, also when connect() is called while connected, and none is running
\* once disconnect() has returned.
Cex_C13_AtMostOneLoop ==
    [][/\ Cardinality(RunningLoops(clients')) <= 1
       /\ Disconnect => RunningLoops(clients') = {}]_vars

\* C14: a disconnect() called right after a call that already closed the
\* session (disconnect() itself, or the disconnect() inside get_device) does
\* not raise, issues no transport call and changes no state.
Cex_C14_SecondDisconnectNoOp ==
    [][(/\ Disconnect
        /\ client # 0
        /\ Idle
        /\ outcome.op \in {"disconnect", "get_device"}
        /\ outcome.calls = <<"loop_stop", "disconnect">>) =>
          /\ outcome'.exc = "none"
          /\ outcome'.calls = <<>>
          /\ client' = client
          /\ device' = device
          /\ clients' = clients]_vars

\* C16: while the last call is a disconnect() that has returned (no call made
\* since), no handler runs, no callback is invoked and the Device State is not
\* modified.
Cex_C16_QuietAfterDisconnect ==
    [][(pc = "idle" /\ outcome.op = "disconnect" /\ outcome.exc = "none") =>
          /\ device' = device
          /\ cbArg' = cbArg
          /\ ~(\E c \in 1..MaxClients, raw \in RawPayloads : OnMessage(c, raw))]_vars


\* C15: for every decodable message handled on a subscribed connection the
\* callback registered on that connection runs exactly once, after the merge,
\* and receives the aggregator's own current Device State, which holds the
\* fields of the payload.
Thm_C15_CallbackOnceAfterMerge ==
    [][\A c \in 1..MaxClients, raw \in RawPayloads :
          (OnMessageTraced(c, raw) /\ Decodable(raw)) =>
             /\ cbRun' = <<clients[c].on_message>>
             /\ cbArg' = device'
             /\ device'.some
             /\ \A f \in DOMAIN json_loads(raw) :
                   /\ f \in DOMAIN cbArg'.attrs
                   /\ cbArg'.attrs[f] = json_loads(raw)[f]]_vars

Wit_C15_CallbackGotMergedState ==
    /\ cbRun = <<"cbA">>
    /\ cbArg = device
    /\ device.some
    /\ DOMAIN device.attrs = {"temp", "fan"}

\* C17: subscribe() installs its callback as the handler of the current
\* connection, replacing an earlier one; every connection holds the handler
\* registered last on it, and a decodable message runs that one callback once.
Thm_C17_LastSubscriptionWins ==
    [][/\ \A cb \in UserCallbacks :
            (Subscribe(cb) /\ client # 0) => clients'[client].on_message = cb
       /\ \A c \in 1..Len(clients') : clients'[c].on_message = reg'[c]
       /\ \A c \in 1..MaxClients, raw \in RawPayloads :
            (OnMessageTraced(c, raw) /\ Decodable(raw)) => cbRun' = <<reg[c]>>]_vars

Wit_C17_HandlerReplaced ==
    /\ Len(clients) = 1
    /\ outcome.op = "subscribe" /\ outcome.exc = "none"
    /\ cbRun = <<"cbA">>
    /\ reg[1] = "cbB"
    /\ clients[1].on_message = "cbB"

\* C18: subscribe() before any connect() raises, calls nothing and leaves the
\* client handle, the Device State and the connections as they were; the
\* Client made by connect() starts without a handler and without a
\* subscription, and no message is handled on a connection that no
\* subscribe() was called on.
Thm_C18_SubscribeNeedsClient ==
    [][/\ \A cb \in UserCallbacks :
            (Subscribe(cb) /\ clients = <<>>) =>
               /\ outcome'.exc # "none"
               /\ outcome'.calls = <<>>
               /\ client' = client /\ device' = device /\ clients' = clients
       /\ \A reach \in Reach :
            Connect(reach) =>
               /\ clients'[client'].on_message = "none"
               /\ ~clients'[client'].subscribed
       /\ \A c \in 1..MaxClients, raw \in RawPayloads :
            OnMessage(c, raw) => reg[c] # "none"]_vars

Wit_C18_SubscribeFailedUnconnected ==
    /\ outcome.op = "subscribe"
    /\ outcome.exc = "AttributeError"
    /\ clients = <<>>
    /\ client = 0
    /\ ~device.some

\* C12: handler invocations that write the Device State are serialized: at no
\* time are two of them inside the handler together.
Cex_C12_SingleWriter == Cardinality(busy) <= 1

====
